---- MODULE Spec2Model ----
(***************************************************************************)
(* Polyphonic voice allocator of gen-dsp                                   *)
(* (src/gen_dsp/templates/shared/voice_alloc.h).                           *)
(*                                                                         *)
(* The VoiceAllocator struct is the state; every voice_alloc_* function is *)
(* one action.  The per-voice DSP engine behind wrapper_create /           *)
(* wrapper_set_param / wrapper_get_param / wrapper_reset / wrapper_perform *)
(* is the gen~ export, which is not part of the repository: it is modelled *)
(* as a parameter store that emits a fixed level per sample.               *)
(***************************************************************************)
EXTENDS Integers, Sequences, FiniteSets

(* ------------------------------------------------------------------------ *)
(* Bounds of the model                                                      *)
(* ------------------------------------------------------------------------ *)
\* largest NUM_VOICES build explored
MaxVoices == 2
\* noteOn is explored while counter < MaxCounter (the uint32 never wraps here)
MaxCounter == 3
\* largest max_frames handed to voice_alloc_init
MaxFrames == 2
\* wrapper_num_outputs() of the gen~ export the build wraps
NumOutputs == 2

(* ------------------------------------------------------------------------ *)
(* Program constants and build configuration                                *)
(* ------------------------------------------------------------------------ *)
VOICE_ALLOC_MAX_CHANNELS == 64
\* designated per-voice parameter indices (the #ifdef'ed macros of note_on)
MIDI_GATE_IDX == 0
MIDI_FREQ_IDX == 1
MIDI_VEL_IDX == 2
\* the one parameter of the export that is not note-driven
GlobalIdx == 3
\* wrapper_num_params(): gate, freq, vel and one global parameter
NumParams == 4
\* the null engine handle
nullptr == 0
\* what a read of states[0] may yield when the array has no element
WildPtr == -1
\* the "free" mark of note[]
FreeNote == -1
\* value every engine parameter has after create and after reset
ParamDefault == 0

\* the pitch of MIDI note 69 in hertz
REFERENCE_PITCH == 440
\* the MIDI note that sounds at the reference pitch
REFERENCE_NOTE == 69
\* powf(2.0f, s / 12.0f) for s = 0..11, in thousandths
SemitoneRatio == <<1000, 1059, 1122, 1189, 1260, 1335,
                   1414, 1498, 1587, 1682, 1782, 1888>>

\* inputs the host may deliver
Notes == {60, 64, 67}
\* notes delivered to a build whose frequency parameter is in hertz
HzNotes == {60, 69, 81}
Velocities == {1}
ParamValues == {0, 1}
\* indices set_global_param is called with: the parameter that is not
\* note-driven, and one past the end
BroadcastIndices == {-1, GlobalIdx, NumParams}
\* indices get_param is called with: a note-driven one, the global one and
\* one past the end
ParamIndices == {MIDI_GATE_IDX, GlobalIdx, NumParams}
\* content the host's output buffers may hold on entry to perform
StaleValues == {7}

VARIABLES
    num_voices,        \* va->num_voices (= NUM_VOICES of the build)
    states,            \* va->states[v]: engine handle or nullptr
    note,              \* va->note[v]
    age,               \* va->age[v]
    counter,           \* va->counter
    num_out_channels,  \* va->num_out_channels
    max_frames,        \* va->max_frames
    param,             \* parameter store of slot v's engine
    last,              \* the last call: operation, arguments, result, engine calls
    run,               \* noteOn calls made since the pool was last all free
    voice_out,         \* va->voice_out[v]: the voice's scratch channels or nullptr
    heap,              \* live engine handles and live scratch allocations
    host               \* the plugin wrapper around the pool and its position

vars == <<num_voices, states, note, age, counter, num_out_channels, max_frames,
          param, last, run, voice_out, heap, host>>

Voices == 0..(num_voices - 1)

Min(a, b) == IF a < b THEN a ELSE b

ValidParam(idx) == idx >= 0 /\ idx < NumParams

\* level the engine of slot v emits on every sample of every channel
EngineLevel(v) == 2 ^ v

(* ------------------------------------------------------------------------ *)
(* The engine behind the wrapper_* calls                                    *)
(* ------------------------------------------------------------------------ *)
\* one wrapper_* call, as logged in last.calls
Call(fn, v, idx, val) == [fn |-> fn, v |-> v, idx |-> idx, val |-> val]

\* the index folded into the table instead of being checked
wrapper_set_param_Wrapped(p, v, idx, val) ==
    [p EXCEPT ![v][idx % NumParams] = val]

\* wrapper_set_param on slot v's engine: an index the export does not know
\* is ignored by it
wrapper_set_param(p, v, idx, val) ==
    IF ValidParam(idx) THEN [p EXCEPT ![v][idx] = val] ELSE p

\* wrapper_get_param: the output value starts at 0 and an unknown index
\* leaves it there
wrapper_get_param(p, v, idx) ==
    IF ValidParam(idx) THEN p[v][idx] ELSE 0

\* wrapper_reset: the export reinitialises its state, parameters included
wrapper_reset(p, v) ==
    [p EXCEPT ![v] = [i \in 0..(NumParams - 1) |-> ParamDefault]]

\* the parameter store after the wrapper_set_param calls of cs, in order
RECURSIVE ApplyCalls(_, _)
ApplyCalls(p, cs) ==
    IF cs = <<>> THEN p
    ELSE LET c == Head(cs) IN
         ApplyCalls(IF c.fn = "set_param"
                       THEN wrapper_set_param(p, c.v, c.idx, c.val)
                       ELSE IF c.fn = "reset" THEN wrapper_reset(p, c.v)
                       ELSE p,
                    Tail(cs))

\* what "va->states[0]" can read: the element, or, in a build whose arrays
\* have no element, whatever lies behind the struct's first bytes
ReadStates0 == IF num_voices > 0 THEN {states[0]} ELSE {nullptr, WildPtr}

NoCall == [op |-> "none", a |-> 0, b |-> 0, ret |-> -1, path |-> "none",
           outs |-> <<>>, calls |-> <<>>]

Crashed == last.op = "crash"

\* the heap after the wrapper_create, wrapper_destroy, calloc and free calls
\* of cs: a failed create adds nothing and free(nullptr) releases nothing
RECURSIVE HeapAfter(_, _)
HeapAfter(h, cs) ==
    IF cs = <<>> THEN h
    ELSE LET c == Head(cs) IN
         HeapAfter(
             IF c.fn = "create" /\ c.val # nullptr
                 THEN [h EXCEPT !.handles = @ + 1]
             ELSE IF c.fn = "destroy" THEN [h EXCEPT !.handles = @ - 1]
             ELSE IF c.fn = "calloc" THEN [h EXCEPT !.bufs = @ + 1]
             ELSE IF c.fn = "free" /\ c.val # nullptr
                 THEN [h EXCEPT !.bufs = @ - 1]
             ELSE h,
             Tail(cs))

\* no plugin wrapper: the pool is driven directly; numOutputs is the
\* wrapper_num_outputs() the wrapper keeps and hands to perform; held lists
\* the keys whose note-on was forwarded and whose note-off is still to come
NoBlock == [queues |-> <<>>, events |-> <<>>, ports |-> <<>>]

\* freq_unit_hz is MIDI_FREQ_UNIT_HZ of the build: 0 hands the note number to
\* the frequency parameter, 1 a frequency in hertz
NoHost == [kind |-> "none", phase |-> "none", pc |-> "idle", maxFrames |-> 0,
           delivered |-> NoBlock, pending |-> <<>>, applied |-> <<>>,
           frames |-> 0, freq_unit_hz |-> FALSE, numOutputs |-> NumOutputs,
           held |-> <<>>]

(* ------------------------------------------------------------------------ *)
(* Construction: voice_alloc_init followed by voice_alloc_create_voices,    *)
(* as every host factory does                                               *)
(* ------------------------------------------------------------------------ *)
\* voice_alloc_init: memset 0, dimensions, every note free
voice_alloc_init ==
    /\ note = [v \in Voices |-> FreeNote]
    /\ age = [v \in Voices |-> 0]
    /\ counter = 0
    /\ num_out_channels = Min(NumOutputs, VOICE_ALLOC_MAX_CHANNELS)
    /\ max_frames = MaxFrames

\* voice_alloc_create_voices on the zeroed pool: wrapper_create may fail for
\* any slot, which leaves its handle null
voice_alloc_create_voices ==
    /\ states \in {h \in [Voices -> 0..num_voices] :
                     \A v \in Voices : h[v] \in {nullptr, v + 1}}
    /\ param = [v \in Voices |-> [i \in 0..(NumParams - 1) |-> ParamDefault]]
    /\ voice_out = [v \in Voices |-> v + 1]
    /\ heap = [handles |-> Cardinality({v \in Voices : states[v] # nullptr}),
               bufs |-> num_voices]

InitFor(counts) ==
    /\ num_voices \in counts
    /\ voice_alloc_init
    /\ voice_alloc_create_voices
    /\ last = NoCall
    /\ run = <<>>
    /\ host = NoHost

\* builds the header is meant for (NUM_VOICES defaults to 1)
Init == InitFor(1..MaxVoices)

\* every build the header compiles in, NUM_VOICES 0 included
InitAny == InitFor(0..MaxVoices)

(* ------------------------------------------------------------------------ *)
(* voice_alloc_note_on                                                      *)
(* ------------------------------------------------------------------------ *)
\* first loop of note_on: the lowest v at or after `from` with note[v] < 0,
\* or -1
RECURSIVE FirstFreeFrom(_)
FirstFreeFrom(from) ==
    IF from >= num_voices THEN -1
    ELSE IF note[from] < 0 THEN from
    ELSE FirstFreeFrom(from + 1)

\* the free test inverted: the lowest v with note[v] >= 0
RECURSIVE FirstBoundFrom(_)
FirstBoundFrom(from) ==
    IF from >= num_voices THEN -1
    ELSE IF note[from] >= 0 THEN from
    ELSE FirstBoundFrom(from + 1)

FirstFree_Inverted == FirstBoundFrom(0)

\* the scan without its break: the highest free v
RECURSIVE LastFreeFrom(_, _)
LastFreeFrom(from, found) ==
    IF from >= num_voices THEN found
    ELSE LastFreeFrom(from + 1, IF note[from] < 0 THEN from ELSE found)

FirstFree_NoBreak == LastFreeFrom(0, -1)

\* the free voice that has been unused longest: smallest age among the free
\* voices, lowest index on a tie
FirstFree_OldestFree ==
    IF \A v \in Voices : note[v] >= 0 THEN -1
    ELSE CHOOSE v \in Voices :
            /\ note[v] < 0
            /\ \A w \in Voices :
                  note[w] < 0 => (age[v] < age[w] \/ (age[v] = age[w] /\ v <= w))

FirstFree == FirstFreeFrom(0)

\* steal scan: left to right from v, replacing on strictly smaller age
RECURSIVE OldestFrom(_, _, _)
OldestFrom(v, voice, oldest_age) ==
    IF v >= num_voices THEN voice
    ELSE IF age[v] < oldest_age THEN OldestFrom(v + 1, v, age[v])
    ELSE OldestFrom(v + 1, voice, oldest_age)

Oldest == OldestFrom(1, 0, age[0])

\* the gate-off sent without looking at the handle
StealGateOff_NoNullCheck(voice) ==
    <<Call("set_param", voice, MIDI_GATE_IDX, 0)>>

\* the steal without its gate-off
StealGateOff_Skipped(voice) ==
    <<>>

\* gate-off sent to the stolen voice before reuse
StealGateOff(voice) ==
    IF states[voice] # nullptr
    THEN <<Call("set_param", voice, MIDI_GATE_IDX, 0)>>
    ELSE <<>>

\* the conversion taking middle C (note 60) as the reference note
MidiToHz_MiddleC(n) ==
    LET k == n - 60
        o == k \div 12
        r == REFERENCE_PITCH * SemitoneRatio[(k % 12) + 1]
    IN  IF o >= 0 THEN r * (2 ^ o) ELSE r \div (2 ^ (0 - o))

\* 440.0f * powf(2.0f, (note - 69) / 12.0f), in thousandths of a hertz:
\* the octave part of the exponent is exact, the semitone part is tabulated
MidiToHz(n) ==
    LET k == n - REFERENCE_NOTE
        o == k \div 12
        r == REFERENCE_PITCH * SemitoneRatio[(k % 12) + 1]
    IN  IF o >= 0 THEN r * (2 ^ o) ELSE r \div (2 ^ (0 - o))

\* the value note_on hands to MIDI_FREQ_IDX
FreqValue(n) == IF host.freq_unit_hz THEN MidiToHz(n) ELSE n

\* the note number and the velocity written to each other's index
NoteOnWrites_SwappedFreqVel(voice, n, velocity) ==
    IF states[voice] = nullptr THEN <<>>
    ELSE <<Call("set_param", voice, MIDI_GATE_IDX, 1),
           Call("set_param", voice, MIDI_FREQ_IDX, velocity),
           Call("set_param", voice, MIDI_VEL_IDX, n)>>

\* control values written after binding; none when the handle is null
NoteOnWrites(voice, n, velocity) ==
    IF states[voice] = nullptr THEN <<>>
    ELSE <<Call("set_param", voice, MIDI_GATE_IDX, 1),
           Call("set_param", voice, MIDI_FREQ_IDX, FreqValue(n)),
           Call("set_param", voice, MIDI_VEL_IDX, velocity)>>

AllFree == \A v \in Voices : note[v] = FreeNote

\* run after a note_on that returned voice
RunAfterNoteOn(n, voice) ==
    IF AllFree THEN << <<n, voice>> >>
    ELSE IF run # <<>> /\ Len(run) < num_voices THEN Append(run, <<n, voice>>)
    ELSE <<>>

\* the age taken after the increment: age[voice] = ++counter
NoteOnPool_PreIncrement(n, velocity) ==
    LET free == FirstFree
        steal == free < 0
        voice == IF steal THEN Oldest ELSE free
        cs == (IF steal THEN StealGateOff(voice) ELSE <<>>)
              \o NoteOnWrites(voice, n, velocity)
    IN  /\ note' = [note EXCEPT ![voice] = n]
        /\ age' = [age EXCEPT ![voice] = counter + 1]
        /\ counter' = counter + 1
        /\ param' = ApplyCalls(param, cs)
        /\ last' = [op |-> "noteOn", a |-> n, b |-> velocity, ret |-> voice,
                    path |-> IF steal THEN "steal" ELSE "free",
                    outs |-> <<>>, calls |-> cs]
        /\ run' = RunAfterNoteOn(n, voice)

\* note_on in a build with at least one voice
NoteOnPool(n, velocity) ==
    LET free == FirstFree
        steal == free < 0
        voice == IF steal THEN Oldest ELSE free
        cs == (IF steal THEN StealGateOff(voice) ELSE <<>>)
              \o NoteOnWrites(voice, n, velocity)
    IN  /\ note' = [note EXCEPT ![voice] = n]
        /\ age' = [age EXCEPT ![voice] = counter]
        /\ counter' = counter + 1
        /\ param' = ApplyCalls(param, cs)
        /\ last' = [op |-> "noteOn", a |-> n, b |-> velocity, ret |-> voice,
                    path |-> IF steal THEN "steal" ELSE "free",
                    outs |-> <<>>, calls |-> cs]
        /\ run' = RunAfterNoteOn(n, voice)

\* note_on in a build with NUM_VOICES 0: no loop runs, voice becomes 0, and
\* note[0], age[0], states[0] lie outside their (empty) arrays.  The stores
\* land on the bytes that follow, which hold counter; a states[0] that reads
\* non-null is handed to wrapper_set_param and the process dies.
NoteOnZero(n, velocity) ==
    /\ UNCHANGED <<note, age, param, run>>
    /\ \E h \in ReadStates0 :
          IF h # nullptr
          THEN /\ last' = [NoCall EXCEPT !.op = "crash", !.a = n, !.b = velocity]
               /\ UNCHANGED counter
          ELSE /\ counter' \in {counter + 1, n, n + 1}
               /\ last' = [op |-> "noteOn", a |-> n, b |-> velocity, ret |-> 0,
                           path |-> "steal", outs |-> <<>>, calls |-> <<>>]

NoteOn(n, velocity) ==
    /\ ~Crashed
    /\ counter < MaxCounter
    /\ IF num_voices > 0 THEN NoteOnPool(n, velocity) ELSE NoteOnZero(n, velocity)
    /\ UNCHANGED <<num_voices, states, num_out_channels, max_frames>>

(* ------------------------------------------------------------------------ *)
(* voice_alloc_note_off                                                     *)
(* ------------------------------------------------------------------------ *)
\* the scan without its return: the highest v bound to n is released
RECURSIVE FirstMatchFrom_Last(_, _)
FirstMatchFrom_Last(from, n) ==
    IF from >= num_voices THEN -1
    ELSE LET later == FirstMatchFrom_Last(from + 1, n)
         IN  IF later >= 0 THEN later
             ELSE IF note[from] = n THEN from ELSE -1

\* the scan starting at voice 1
RECURSIVE FirstMatchFrom_FromOne(_, _)
FirstMatchFrom_FromOne(from, n) ==
    IF from >= num_voices THEN -1
    ELSE IF from >= 1 /\ note[from] = n THEN from
    ELSE FirstMatchFrom_FromOne(from + 1, n)

\* the match test as <= instead of ==
RECURSIVE FirstMatchFrom_Le(_, _)
FirstMatchFrom_Le(from, n) ==
    IF from >= num_voices THEN -1
    ELSE IF note[from] <= n THEN from
    ELSE FirstMatchFrom_Le(from + 1, n)

\* the scan of note_off: the lowest v at or after `from` bound to n, or -1
RECURSIVE FirstMatchFrom(_, _)
FirstMatchFrom(from, n) ==
    IF from >= num_voices THEN -1
    ELSE IF note[from] = n THEN from
    ELSE FirstMatchFrom(from + 1, n)

\* the release without its gate-off
NoteOffGateOff_Skipped(v) ==
    <<>>

\* gate-off sent to the released voice
NoteOffGateOff(v) ==
    IF states[v] # nullptr
    THEN <<Call("set_param", v, MIDI_GATE_IDX, 0)>>
    ELSE <<>>

NoteOff(n) ==
    /\ ~Crashed
    /\ LET v == FirstMatchFrom(0, n)
           cs == IF v >= 0 THEN NoteOffGateOff(v) ELSE <<>>
       IN  /\ note' = IF v >= 0 THEN [note EXCEPT ![v] = FreeNote] ELSE note
           /\ param' = ApplyCalls(param, cs)
           /\ last' = [op |-> "noteOff", a |-> n, b |-> 0, ret |-> -1,
                       path |-> IF v >= 0 THEN "match" ELSE "nomatch",
                       outs |-> <<>>, calls |-> cs]
           /\ run' = IF v >= 0 THEN <<>> ELSE run
    /\ UNCHANGED <<num_voices, states, age, counter, num_out_channels, max_frames>>

(* ------------------------------------------------------------------------ *)
(* voice_alloc_set_global_param / voice_alloc_get_param                     *)
(* ------------------------------------------------------------------------ *)
\* the broadcast stopping after the first non-null handle
RECURSIVE BroadcastFrom_FirstOnly(_, _, _)
BroadcastFrom_FirstOnly(v, idx, value) ==
    IF v >= num_voices THEN <<>>
    ELSE IF states[v] # nullptr THEN <<Call("set_param", v, idx, value)>>
    ELSE BroadcastFrom_FirstOnly(v + 1, idx, value)

\* the broadcast loop passing over voice 0
RECURSIVE BroadcastFrom_SkipZero(_, _, _)
BroadcastFrom_SkipZero(v, idx, value) ==
    IF v >= num_voices THEN <<>>
    ELSE (IF states[v] # nullptr /\ v >= 1
          THEN <<Call("set_param", v, idx, value)>> ELSE <<>>)
         \o BroadcastFrom_SkipZero(v + 1, idx, value)

\* the broadcast loop from voice v on: one set_param per non-null handle
RECURSIVE BroadcastFrom(_, _, _)
BroadcastFrom(v, idx, value) ==
    IF v >= num_voices THEN <<>>
    ELSE (IF states[v] # nullptr
          THEN <<Call("set_param", v, idx, value)>> ELSE <<>>)
         \o BroadcastFrom(v + 1, idx, value)

SetGlobalParam(idx, value) ==
    /\ ~Crashed
    /\ LET cs == BroadcastFrom(0, idx, value)
       IN  /\ param' = ApplyCalls(param, cs)
           /\ last' = [op |-> "setGlobalParam", a |-> idx, b |-> value, ret |-> -1,
                       path |-> "none", outs |-> <<>>, calls |-> cs]
    /\ UNCHANGED <<num_voices, states, note, age, counter, num_out_channels,
                   max_frames, run>>

\* value get_param returns for a non-wild states[0] = h
GetParamValue(h, idx) ==
    IF h # nullptr THEN wrapper_get_param(param, 0, idx) ELSE 0

GetParam(idx) ==
    /\ ~Crashed
    /\ \E h \in ReadStates0 :
          last' = IF h = WildPtr
                  THEN [NoCall EXCEPT !.op = "crash", !.a = idx]
                  ELSE [op |-> "getParam", a |-> idx, b |-> 0,
                        ret |-> GetParamValue(h, idx), path |-> "none",
                        outs |-> <<>>,
                        calls |-> IF h # nullptr
                                  THEN <<Call("get_param", 0, idx, 0)>>
                                  ELSE <<>>]
    /\ UNCHANGED <<num_voices, states, note, age, counter, num_out_channels,
                   max_frames, param, run>>

(* ------------------------------------------------------------------------ *)
(* voice_alloc_perform                                                      *)
(* ------------------------------------------------------------------------ *)
\* a buffer set: channel -> frame -> sample
Buffers(channels, frames, x) ==
    [ch \in 0..(channels - 1) |-> [s \in 0..(frames - 1) |-> x]]

\* wrapper_perform of slot v's engine into bufs: numouts channels, n frames
wrapper_perform(v, bufs, numouts, n) ==
    [ch \in DOMAIN bufs |->
        [s \in DOMAIN bufs[ch] |->
            IF ch < numouts /\ s < n THEN EngineLevel(v) ELSE bufs[ch][s]]]

\* the memset left out: the host buffers keep what they held
ZeroOutputs_Skipped(outs, out_ch, nframes) ==
    outs

\* memset(outs[ch], 0, nframes * sizeof(float)) for ch < out_ch
ZeroOutputs(outs, out_ch, nframes) ==
    [ch \in DOMAIN outs |->
        [s \in DOMAIN outs[ch] |->
            IF ch < out_ch /\ s < nframes THEN 0 ELSE outs[ch][s]]]

\* the sum written as dst[s] = src[s]
SumInto_Overwrite(outs, scratch, out_ch, nframes) ==
    [ch \in DOMAIN outs |->
        [s \in DOMAIN outs[ch] |->
            IF ch < out_ch /\ s < nframes THEN scratch[ch][s] ELSE outs[ch][s]]]

\* dst[s] += src[s] for ch < out_ch, s < nframes
SumInto(outs, scratch, out_ch, nframes) ==
    [ch \in DOMAIN outs |->
        [s \in DOMAIN outs[ch] |->
            IF ch < out_ch /\ s < nframes
            THEN outs[ch][s] + scratch[ch][s] ELSE outs[ch][s]]]

\* the loop over voices v >= 1: each non-null engine renders into its
\* scratch buffers, which are then added to the host buffers
RECURSIVE MixFrom(_, _, _, _, _)
MixFrom(v, outs, num_outs, out_ch, nframes) ==
    IF v >= num_voices THEN outs
    ELSE IF states[v] = nullptr
         THEN MixFrom(v + 1, outs, num_outs, out_ch, nframes)
    ELSE LET scratch == wrapper_perform(
                            v, Buffers(out_ch, max_frames, 0), num_outs, nframes)
         IN  MixFrom(v + 1, SumInto(outs, scratch, out_ch, nframes),
                     num_outs, out_ch, nframes)

\* perform passing over the voices that hold no note
RECURSIVE PerformCallsFrom_BoundOnly(_)
PerformCallsFrom_BoundOnly(v) ==
    IF v >= num_voices THEN <<>>
    ELSE (IF states[v] # nullptr /\ note[v] >= 0
          THEN <<Call("perform", v, 0, 0)>> ELSE <<>>)
         \o PerformCallsFrom_BoundOnly(v + 1)

\* the wrapper_perform calls of voice_alloc_perform from voice v on
RECURSIVE PerformCallsFrom(_)
PerformCallsFrom(v) ==
    IF v >= num_voices THEN <<>>
    ELSE (IF states[v] # nullptr THEN <<Call("perform", v, 0, 0)>> ELSE <<>>)
         \o PerformCallsFrom(v + 1)

\* host buffers after voice_alloc_perform, given what states[0] read as
PerformOutputs(h, outs, num_outs, nframes) ==
    LET out_ch == Min(num_outs, num_out_channels)
        first == IF h # nullptr
                 THEN wrapper_perform(0, outs, num_outs, nframes)
                 ELSE ZeroOutputs(outs, out_ch, nframes)
    IN  MixFrom(1, first, num_outs, out_ch, nframes)

Perform(nframes, stale) ==
    /\ ~Crashed
    /\ \E h \in ReadStates0 :
          last' = IF h = WildPtr
                  THEN [NoCall EXCEPT !.op = "crash", !.a = nframes, !.b = stale]
                  ELSE [op |-> "perform", a |-> nframes, b |-> stale, ret |-> -1,
                        path |-> "none",
                        outs |-> PerformOutputs(
                                     h, Buffers(NumOutputs, max_frames, stale),
                                     NumOutputs, nframes),
                        calls |-> PerformCallsFrom(0)]
    /\ UNCHANGED <<num_voices, states, note, age, counter, num_out_channels,
                   max_frames, param, run>>

(* ------------------------------------------------------------------------ *)
(* voice_alloc_reset                                                        *)
(* ------------------------------------------------------------------------ *)
\* the reset loop without its null check
RECURSIVE ResetCallsFrom_NoNullCheck(_)
ResetCallsFrom_NoNullCheck(v) ==
    IF v >= num_voices THEN <<>>
    ELSE <<Call("reset", v, 0, 0)>> \o ResetCallsFrom_NoNullCheck(v + 1)

\* the reset loop tearing each engine down instead of resetting it
RECURSIVE ResetCallsFrom_Destroy(_)
ResetCallsFrom_Destroy(v) ==
    IF v >= num_voices THEN <<>>
    ELSE (IF states[v] # nullptr
          THEN <<Call("destroy", v, 0, states[v])>> ELSE <<>>)
         \o ResetCallsFrom_Destroy(v + 1)

RECURSIVE ResetCallsFrom(_)
ResetCallsFrom(v) ==
    IF v >= num_voices THEN <<>>
    ELSE (IF states[v] # nullptr THEN <<Call("reset", v, 0, 0)>> ELSE <<>>)
         \o ResetCallsFrom(v + 1)

\* the reset that restarts the counter but keeps the bindings
Reset_KeepBindings ==
    /\ ~Crashed
    /\ LET cs == ResetCallsFrom(0)
       IN  /\ param' = ApplyCalls(param, cs)
           /\ last' = [op |-> "reset", a |-> 0, b |-> 0, ret |-> -1,
                       path |-> "none", outs |-> <<>>, calls |-> cs]
    /\ counter' = 0
    /\ run' = <<>>
    /\ UNCHANGED <<num_voices, states, note, age, num_out_channels, max_frames>>

Reset ==
    /\ ~Crashed
    /\ LET cs == ResetCallsFrom(0)
       IN  /\ param' = ApplyCalls(param, cs)
           /\ last' = [op |-> "reset", a |-> 0, b |-> 0, ret |-> -1,
                       path |-> "none", outs |-> <<>>, calls |-> cs]
    /\ note' = [v \in Voices |-> FreeNote]
    /\ counter' = 0
    /\ run' = <<>>
    /\ UNCHANGED <<num_voices, states, age, num_out_channels, max_frames>>

(* ------------------------------------------------------------------------ *)
(* The host calls in any order                                              *)
(* ------------------------------------------------------------------------ *)
\* the six operations assign no handle and no scratch pointer; the heap
\* follows the calls they make
HeapStep ==
    /\ heap' = HeapAfter(heap, last'.calls)
    /\ UNCHANGED voice_out

Next ==
    \/ \E n \in Notes, velocity \in Velocities :
          NoteOn(n, velocity) /\ HeapStep /\ UNCHANGED host
    \/ \E n \in Notes : NoteOff(n) /\ HeapStep /\ UNCHANGED host
    \/ \E idx \in BroadcastIndices, value \in ParamValues :
          SetGlobalParam(idx, value) /\ HeapStep /\ UNCHANGED host
    \/ \E idx \in ParamIndices : GetParam(idx) /\ HeapStep /\ UNCHANGED host
    \/ \E nframes \in 1..MaxFrames, stale \in StaleValues :
          Perform(nframes, stale) /\ HeapStep /\ UNCHANGED host
    \/ Reset /\ HeapStep /\ UNCHANGED host

Spec == Init /\ [][Next]_vars

SpecAny == InitAny /\ [][Next]_vars

\* a build with MIDI_FREQ_UNIT_HZ set, driven directly
InitHz ==
    /\ num_voices \in 1..MaxVoices
    /\ voice_alloc_init
    /\ voice_alloc_create_voices
    /\ last = NoCall
    /\ run = <<>>
    /\ host = [NoHost EXCEPT !.freq_unit_hz = TRUE]

NextHz ==
    \/ \E n \in HzNotes, velocity \in Velocities :
          NoteOn(n, velocity) /\ HeapStep /\ UNCHANGED host
    \/ \E n \in HzNotes : NoteOff(n) /\ HeapStep /\ UNCHANGED host
    \/ \E idx \in BroadcastIndices, value \in ParamValues :
          SetGlobalParam(idx, value) /\ HeapStep /\ UNCHANGED host
    \/ \E idx \in ParamIndices : GetParam(idx) /\ HeapStep /\ UNCHANGED host
    \/ \E nframes \in 1..MaxFrames, stale \in StaleValues :
          Perform(nframes, stale) /\ HeapStep /\ UNCHANGED host
    \/ Reset /\ HeapStep /\ UNCHANGED host

SpecHz == InitHz /\ [][NextHz]_vars

(* ------------------------------------------------------------------------ *)
(* The plugin wrappers: lifecycle calls                                     *)
(* ------------------------------------------------------------------------ *)
Hosts == {"clap", "vst3", "au", "lv2"}

\* most live engine handles and scratch allocations the lifecycle calls are
\* followed to
MaxLive == 2 * MaxVoices

HeapRoom ==
    /\ heap.handles + num_voices <= MaxLive
    /\ heap.bufs + num_voices <= MaxLive

NullPointers == [v \in Voices |-> nullptr]

FreshParams == [v \in Voices |-> [i \in 0..(NumParams - 1) |-> ParamDefault]]

\* states[] after the loop of voice_alloc_create_voices; ok[v] tells whether
\* wrapper_create succeeded for slot v
FreshHandles(ok) == [v \in Voices |-> IF ok[v] THEN v + 1 ELSE nullptr]

FreshScratch == [v \in Voices |-> v + 1]

\* outcomes of the wrapper_create calls of one create loop that are followed:
\* all succeed, or the one for slot 0 fails, or the one for slot 1 fails
OkPatterns == {[v \in Voices |-> TRUE], [v \in Voices |-> v # 0],
               [v \in Voices |-> v # 1]}

HostCall(op, a, cs) == [NoCall EXCEPT !.op = op, !.a = a, !.calls = cs]

\* the loop of voice_alloc_create_voices over the handles h and scratch
\* pointers vo it finds: destroy a non-null handle, create, then free and
\* calloc the voice's scratch channels
RECURSIVE CreateCallsFrom(_, _, _, _)
CreateCallsFrom(v, h, vo, ok) ==
    IF v >= num_voices THEN <<>>
    ELSE (IF h[v] # nullptr THEN <<Call("destroy", v, 0, h[v])>> ELSE <<>>)
         \o <<Call("create", v, 0, IF ok[v] THEN v + 1 ELSE nullptr),
              Call("free", v, 0, vo[v]),
              Call("calloc", v, 0, v + 1)>>
         \o CreateCallsFrom(v + 1, h, vo, ok)

\* the loop of voice_alloc_destroy with a wrapper_destroy for every slot
RECURSIVE DestroyCallsFrom_NoNullCheck(_)
DestroyCallsFrom_NoNullCheck(v) ==
    IF v >= num_voices THEN <<>>
    ELSE <<Call("destroy", v, 0, states[v]), Call("free", v, 0, voice_out[v])>>
         \o DestroyCallsFrom_NoNullCheck(v + 1)

\* the loop of voice_alloc_destroy: wrapper_destroy for a non-null handle,
\* free for the scratch channels (free(nullptr) when there are none)
RECURSIVE DestroyCallsFrom(_)
DestroyCallsFrom(v) ==
    IF v >= num_voices THEN <<>>
    ELSE (IF states[v] # nullptr
          THEN <<Call("destroy", v, 0, states[v])>> ELSE <<>>)
         \o <<Call("free", v, 0, voice_out[v])>>
         \o DestroyCallsFrom(v + 1)

\* voice_alloc_destroy, called by the handler op
voice_alloc_destroy(op) ==
    /\ LET cs == DestroyCallsFrom(0)
       IN  /\ heap' = HeapAfter(heap, cs)
           /\ last' = HostCall(op, 0, cs)
    /\ states' = NullPointers
    /\ voice_out' = NullPointers
    /\ note' = [v \in Voices |-> FreeNote]
    /\ run' = <<>>
    /\ UNCHANGED <<num_voices, age, counter, num_out_channels, max_frames, param>>

\* voice_alloc_init followed by voice_alloc_create_voices: the memset zeroes
\* every handle and scratch pointer, whatever they referred to, and the
\* create loop then finds them null
InitAndCreate(frames, ok) ==
    /\ states' = FreshHandles(ok)
    /\ voice_out' = FreshScratch
    /\ note' = [v \in Voices |-> FreeNote]
    /\ age' = [v \in Voices |-> 0]
    /\ counter' = 0
    /\ num_out_channels' = Min(NumOutputs, VOICE_ALLOC_MAX_CHANNELS)
    /\ max_frames' = frames
    /\ run' = <<>>
    /\ heap' = HeapAfter(heap, CreateCallsFrom(0, NullPointers, NullPointers, ok))
    /\ UNCHANGED num_voices

\* one voice_alloc_set_global_param per parameter index, values from saved
RECURSIVE RestoreParams(_, _)
RestoreParams(i, saved) ==
    IF i >= NumParams THEN <<>>
    ELSE BroadcastFrom(0, i, saved[i]) \o RestoreParams(i + 1, saved)

\* SaveParams: the values of slot 0's engine
SaveParams == [i \in 0..(NumParams - 1) |-> wrapper_get_param(param, 0, i)]

Idle == ~Crashed /\ host.pc = "idle"

(* ---- CLAP ---- *)
\* clap_gen_activate: voice_alloc_create_voices alone, on the pool as it is
clap_gen_activate(frames, ok) ==
    /\ Idle /\ host.kind = "clap" /\ host.phase = "inactive"
    /\ LET cs == CreateCallsFrom(0, states, voice_out, ok)
       IN  /\ heap' = HeapAfter(heap, cs)
           /\ last' = HostCall("clap_gen_activate", frames, cs)
    /\ states' = FreshHandles(ok)
    /\ voice_out' = FreshScratch
    /\ max_frames' = frames
    /\ param' = FreshParams
    /\ host' = [host EXCEPT !.maxFrames = frames,
                            !.phase = IF ok[0] THEN "active" ELSE "inactive"]
    /\ UNCHANGED <<num_voices, note, age, counter, num_out_channels, run>>

\* clap_gen_deactivate keeps the engines
clap_gen_deactivate ==
    /\ Idle /\ host.kind = "clap" /\ host.phase = "active"
    /\ last' = HostCall("clap_gen_deactivate", 0, <<>>)
    /\ host' = [host EXCEPT !.phase = "inactive"]
    /\ UNCHANGED <<num_voices, states, note, age, counter, num_out_channels,
                   max_frames, param, run, voice_out, heap>>

clap_gen_destroy ==
    /\ Idle /\ host.kind = "clap" /\ host.phase = "inactive"
    /\ voice_alloc_destroy("clap_gen_destroy")
    /\ host' = [host EXCEPT !.phase = "gone"]

(* ---- VST3 ---- *)
\* setActive(true): init, create, then a broadcast of the controller's
\* value of every parameter; x is that value
setActiveTrue(ok, x) ==
    /\ Idle /\ host.kind = "vst3" /\ host.phase = "inactive"
    /\ HeapRoom
    /\ InitAndCreate(host.maxFrames, ok)
    /\ LET bs == IF ok[0]
                 THEN (RestoreParams(0, [i \in 0..(NumParams - 1) |-> x]))'
                 ELSE <<>>
       IN  /\ param' = ApplyCalls(FreshParams, bs)
           /\ last' = HostCall("setActive", 1,
                        CreateCallsFrom(0, NullPointers, NullPointers, ok) \o bs)
    /\ host' = [host EXCEPT !.phase = IF ok[0] THEN "active" ELSE "inactive"]

\* setActive(false): voice_alloc_destroy
setActiveFalse ==
    /\ Idle /\ host.kind = "vst3" /\ host.phase = "active"
    /\ voice_alloc_destroy("setActive")
    /\ host' = [host EXCEPT !.phase = "inactive"]

terminate ==
    /\ Idle /\ host.kind = "vst3" /\ host.phase = "inactive"
    /\ voice_alloc_destroy("terminate")
    /\ host' = [host EXCEPT !.phase = "closed"]

\* ~GenVst3Plugin, after terminate or without it
destructor ==
    /\ Idle /\ host.kind = "vst3" /\ host.phase \in {"inactive", "closed"}
    /\ voice_alloc_destroy("destructor")
    /\ host' = [host EXCEPT !.phase = "gone"]

(* ---- AU ---- *)
\* the loop over the parameters of one voice in voice_alloc_restore_params
RECURSIVE RestoreVoiceFrom(_, _, _)
RestoreVoiceFrom(v, i, saved) ==
    IF i >= NumParams THEN <<>>
    ELSE <<Call("set_param", v, i, saved[i])>> \o RestoreVoiceFrom(v, i + 1, saved)

\* voice_alloc_restore_params writing to slot 0's engine alone
RECURSIVE RestoreCallsFrom_FirstOnly(_, _)
RestoreCallsFrom_FirstOnly(v, saved) ==
    IF v >= num_voices THEN <<>>
    ELSE IF states[v] # nullptr THEN RestoreVoiceFrom(v, 0, saved)
    ELSE RestoreCallsFrom_FirstOnly(v + 1, saved)

\* voice_alloc_restore_params: every parameter to every non-null handle
RECURSIVE RestoreCallsFrom(_, _)
RestoreCallsFrom(v, saved) ==
    IF v >= num_voices THEN <<>>
    ELSE (IF states[v] # nullptr THEN RestoreVoiceFrom(v, 0, saved) ELSE <<>>)
         \o RestoreCallsFrom(v + 1, saved)

\* AUGenInitialize: save from slot 0, init and create, restore by broadcast
AUGenInitialize(ok) ==
    /\ Idle /\ host.kind = "au" /\ host.phase = "inactive"
    /\ HeapRoom
    /\ InitAndCreate(host.maxFrames, ok)
    /\ \E saved \in {SaveParams} :
          LET bs == IF ok[0] /\ states[0] # nullptr
                    THEN (RestoreParams(0, saved))' ELSE <<>>
          IN  /\ param' = ApplyCalls(FreshParams, bs)
              /\ last' = HostCall("AUGenInitialize", 0,
                           CreateCallsFrom(0, NullPointers, NullPointers, ok)
                               \o bs)
    /\ host' = [host EXCEPT !.phase = IF ok[0] THEN "active" ELSE "inactive"]

\* AUGenUninitialize keeps the engines
AUGenUninitialize ==
    /\ Idle /\ host.kind = "au" /\ host.phase = "active"
    /\ last' = HostCall("AUGenUninitialize", 0, <<>>)
    /\ host' = [host EXCEPT !.phase = "inactive"]
    /\ UNCHANGED <<num_voices, states, note, age, counter, num_out_channels,
                   max_frames, param, run, voice_out, heap>>

\* kAudioUnitProperty_MaximumFramesPerSlice: the engines are created anew
\* when the unit is initialized
AUGenSetMaxFrames(newMax, ok) ==
    /\ Idle /\ host.kind = "au" /\ host.phase \in {"inactive", "active"}
    /\ HeapRoom
    /\ host' = [host EXCEPT !.maxFrames = newMax]
    /\ IF host.phase = "active"
       THEN /\ InitAndCreate(newMax, ok)
            /\ \E saved \in {SaveParams} :
                  LET bs == IF states[0] # nullptr
                            THEN (RestoreParams(0, saved))' ELSE <<>>
                  IN  /\ param' = ApplyCalls(FreshParams, bs)
                      /\ last' = HostCall("AUGenSetMaxFrames", newMax,
                                   CreateCallsFrom(0, NullPointers,
                                                   NullPointers, ok) \o bs)
       ELSE /\ last' = HostCall("AUGenSetMaxFrames", newMax, <<>>)
            /\ UNCHANGED <<num_voices, states, note, age, counter,
                           num_out_channels, max_frames, param, run,
                           voice_out, heap>>

\* AUGenReset: save, voice_alloc_reset, restore, when slot 0 has an engine
AUGenReset ==
    /\ Idle /\ host.kind = "au" /\ host.phase \in {"inactive", "active"}
    /\ IF states[0] # nullptr
       THEN LET cs == ResetCallsFrom(0) \o RestoreCallsFrom(0, SaveParams)
            IN  /\ param' = ApplyCalls(param, cs)
                /\ last' = HostCall("AUGenReset", 1, cs)
                /\ note' = [v \in Voices |-> FreeNote]
                /\ counter' = 0
                /\ run' = <<>>
       ELSE /\ last' = HostCall("AUGenReset", 0, <<>>)
            /\ UNCHANGED <<param, note, counter, run>>
    /\ UNCHANGED <<num_voices, states, age, num_out_channels, max_frames,
                   voice_out, heap, host>>

AUGenClose ==
    /\ Idle /\ host.kind = "au" /\ host.phase \in {"inactive", "active"}
    /\ voice_alloc_destroy("AUGenClose")
    /\ host' = [host EXCEPT !.phase = "gone"]

\* AUGenMIDIEvent: note on and note off go straight to the pool
AUGenMIDIEvent(on, n) ==
    /\ Idle /\ host.kind = "au" /\ host.phase \in {"inactive", "active"}
    /\ IF on THEN NoteOn(n, 1) ELSE NoteOff(n)
    /\ HeapStep
    /\ UNCHANGED host

\* AUGenSetParameter: an index not below numParams is rejected
AUGenSetParameter(idx, value) ==
    /\ Idle /\ host.kind = "au" /\ host.phase \in {"inactive", "active"}
    /\ idx < NumParams
    /\ SetGlobalParam(idx, value)
    /\ HeapStep
    /\ UNCHANGED host

\* AUGenRender: refused unless initialized, slot 0 has an engine and the
\* frame count is within maxFramesPerSlice
AUGenRender(nframes, stale) ==
    /\ Idle /\ host.kind = "au" /\ host.phase = "active"
    /\ states[0] # nullptr
    /\ nframes <= host.maxFrames
    /\ Perform(nframes, stale)
    /\ HeapStep
    /\ UNCHANGED host

(* ---- LV2 ---- *)
\* lv2_gen_activate: voice_alloc_reset
lv2_gen_activate ==
    /\ Idle /\ host.kind = "lv2" /\ host.phase = "inactive"
    /\ Reset
    /\ HeapStep
    /\ host' = [host EXCEPT !.phase = "active"]

lv2_gen_deactivate ==
    /\ Idle /\ host.kind = "lv2" /\ host.phase = "active"
    /\ last' = HostCall("lv2_gen_deactivate", 0, <<>>)
    /\ host' = [host EXCEPT !.phase = "inactive"]
    /\ UNCHANGED <<num_voices, states, note, age, counter, num_out_channels,
                   max_frames, param, run, voice_out, heap>>

lv2_gen_cleanup ==
    /\ Idle /\ host.kind = "lv2" /\ host.phase = "inactive"
    /\ voice_alloc_destroy("lv2_gen_cleanup")
    /\ host' = [host EXCEPT !.phase = "gone"]

(* ------------------------------------------------------------------------ *)
(* The plugin wrappers: the process callback, one block at a time           *)
(* ------------------------------------------------------------------------ *)
Ev(type, a, b) == [type |-> type, a |-> a, b |-> b]

\* one parameter queue of a VST3 block: the parameter id and its points
Queue(id, points) == [id |-> id, points |-> points]

HostNotes == {60}

NoteEvents == {Ev("on", n, 1) : n \in HostNotes}
                  \cup {Ev("off", n, 0) : n \in HostNotes}

\* event lists of a block: none, one or two events
Lists(E) == {<<>>} \cup {<<e>> : e \in E} \cup {<<e, f>> : e \in E, f \in E}

\* CLAP blocks: notes and parameter values in one list, and one block
\* with a parameter id outside the parameters
ClapBlocks == Lists(NoteEvents \cup {Ev("param", GlobalIdx, 1)})
                  \cup {<<Ev("param", NumParams, 1)>>}

Vst3Queues == {<<>>, <<Queue(GlobalIdx, <<1, 0>>)>>, <<Queue(NumParams, <<1>>)>>}

\* values of the LV2 control ports, one per parameter
Lv2Ports == {[i \in 1..NumParams |-> x] : x \in ParamValues}

\* block lengths a host may ask of a wrapper that never declared a limit
HostFrames == {1, MaxFrames + 1}

\* maximum block lengths a host announces, and block lengths within them
FrameSizes == {1, MaxFrames}

IsNoteOn(e) == e.type = "on"

\* the events of a CLAP block as clap_gen_process takes them: in list order,
\* a parameter event with an index outside the parameters passed over
ClapOrder(events) ==
    SelectSeq(events, LAMBDA e : e.type = "param" => ValidParam(e.a))

\* the parameter loop of GenVst3Plugin::process: per queue, the last point,
\* a queue with an id not below mNumParams or with no point passed over
RECURSIVE LastPoints(_)
LastPoints(queues) ==
    IF queues = <<>> THEN <<>>
    ELSE LET q == Head(queues) IN
         (IF q.id >= NumParams \/ Len(q.points) <= 0 THEN <<>>
          ELSE <<Ev("param", q.id, q.points[Len(q.points)])>>)
         \o LastPoints(Tail(queues))

\* the event list walked before the parameter queues
Vst3Order_NotesFirst(queues, events) == events \o LastPoints(queues)

\* GenVst3Plugin::process: the parameter queues, then the event list
Vst3Order(queues, events) == LastPoints(queues) \o events

\* lv2_gen_run: the MIDI events, then every control port written to its
\* parameter
Lv2Order(events, ports) ==
    events \o [k \in 1..NumParams |-> Ev("port", k - 1, ports[k])]

\* the callback has checked slot 0 and now walks the events of the block
BeginBlock(op, queues, events, ports, order, nframes) ==
    /\ Idle /\ host.phase = "active"
    /\ states[0] # nullptr
    /\ counter + Len(SelectSeq(events, IsNoteOn)) <= MaxCounter
    /\ host' = [host EXCEPT !.pc = "events",
                            !.delivered = [queues |-> queues, events |-> events,
                                           ports |-> ports],
                            !.pending = order,
                            !.applied = <<>>,
                            !.frames = nframes]
    /\ last' = HostCall(op, nframes, <<>>)
    /\ UNCHANGED <<num_voices, states, note, age, counter, num_out_channels,
                   max_frames, param, run, voice_out, heap>>

\* the host keeps frames_count within the max_frames_count it activated with
clap_gen_process(events, nframes) ==
    /\ host.kind = "clap"
    /\ nframes <= host.maxFrames
    /\ BeginBlock("clap_gen_process", <<>>, events, <<>>, ClapOrder(events),
                  nframes)

process(queues, events, nframes) ==
    /\ host.kind = "vst3"
    /\ BeginBlock("process", queues, events, <<>>, Vst3Order(queues, events),
                  nframes)

lv2_gen_run(events, ports, nframes) ==
    /\ host.kind = "lv2"
    /\ BeginBlock("lv2_gen_run", <<>>, events, ports, Lv2Order(events, ports),
                  nframes)

\* one turn of the event loop
ApplyEvent ==
    /\ host.pc = "events" /\ host.pending # <<>>
    /\ LET e == Head(host.pending) IN
          /\ \/ e.type = "on" /\ NoteOn(e.a, e.b)
             \/ e.type = "off" /\ NoteOff(e.a)
             \/ e.type \in {"param", "port"} /\ SetGlobalParam(e.a, e.b)
          /\ host' = [host EXCEPT !.pending = Tail(@), !.applied = Append(@, e)]
    /\ HeapStep

\* a block longer than the scratch buffers runs the summing loop past
\* their end
Overrun == host.frames > max_frames /\ \E v \in Voices : v >= 1 /\ states[v] # nullptr

\* the loop is done: voice_alloc_perform with the block's frame count
BlockPerform(stale) ==
    /\ ~Crashed /\ host.pc = "events" /\ host.pending = <<>>
    /\ \/ Perform(host.frames, stale) /\ HeapStep
       \/ /\ Overrun
          /\ last' = [NoCall EXCEPT !.op = "crash", !.a = host.frames]
          /\ UNCHANGED <<num_voices, states, note, age, counter,
                         num_out_channels, max_frames, param, run, voice_out,
                         heap>>
    /\ host' = [host EXCEPT !.pc = "idle"]

(* ------------------------------------------------------------------------ *)
(* A plugin instance from its factory on                                    *)
(* ------------------------------------------------------------------------ *)
\* the factory of each wrapper: voice_alloc_init, voice_alloc_create_voices;
\* the wrappers take the pool in only when NUM_VOICES > 1
InitHost ==
    /\ num_voices \in 2..MaxVoices
    /\ voice_alloc_init
    /\ voice_alloc_create_voices
    /\ \E ok \in OkPatterns : states = FreshHandles(ok)
    /\ last = NoCall
    /\ run = <<>>
    /\ \E k \in Hosts :
          host = [NoHost EXCEPT !.kind = k, !.phase = "inactive",
                                !.maxFrames = MaxFrames]

NextHost ==
    \/ \E frames \in FrameSizes, ok \in OkPatterns :
          clap_gen_activate(frames, ok)
    \/ clap_gen_deactivate
    \/ clap_gen_destroy
    \/ \E events \in ClapBlocks, nframes \in FrameSizes :
          clap_gen_process(events, nframes)
    \/ \E ok \in OkPatterns, x \in ParamValues : setActiveTrue(ok, x)
    \/ setActiveFalse
    \/ terminate
    \/ destructor
    \/ \E queues \in Vst3Queues, events \in Lists(NoteEvents),
          nframes \in HostFrames : process(queues, events, nframes)
    \/ \E ok \in OkPatterns : AUGenInitialize(ok)
    \/ AUGenUninitialize
    \/ \E newMax \in FrameSizes, ok \in OkPatterns :
          AUGenSetMaxFrames(newMax, ok)
    \/ AUGenReset
    \/ AUGenClose
    \/ \E on \in BOOLEAN, n \in HostNotes : AUGenMIDIEvent(on, n)
    \/ \E value \in ParamValues : AUGenSetParameter(GlobalIdx, value)
    \/ \E nframes \in HostFrames, stale \in StaleValues :
          AUGenRender(nframes, stale)
    \/ lv2_gen_activate
    \/ lv2_gen_deactivate
    \/ lv2_gen_cleanup
    \/ \E events \in Lists(NoteEvents), ports \in Lv2Ports,
          nframes \in HostFrames : lv2_gen_run(events, ports, nframes)
    \/ ApplyEvent
    \/ \E stale \in StaleValues : BlockPerform(stale)

SpecHost == InitHost /\ [][NextHost]_vars

(* ------------------------------------------------------------------------ *)
(* voice_alloc_save_params / voice_alloc_restore_params called on the pool  *)
(* ------------------------------------------------------------------------ *)
\* the reads of voice_alloc_save_params: one wrapper_get_param on slot 0 per
\* parameter index from i on
RECURSIVE SaveCallsFrom(_)
SaveCallsFrom(i) ==
    IF i >= NumParams THEN <<>>
    ELSE <<Call("get_param", 0, i, 0)>> \o SaveCallsFrom(i + 1)

\* voice_alloc_save_params: fills saved[] from slot 0's engine; with a null
\* slot 0 the caller's array is left as it was
voice_alloc_save_params ==
    /\ ~Crashed
    /\ \E h \in ReadStates0 :
          last' = IF h = WildPtr
                  THEN [NoCall EXCEPT !.op = "crash"]
                  ELSE [op |-> "saveParams", a |-> NumParams, b |-> 0,
                        ret |-> -1, path |-> "none",
                        outs |-> IF h # nullptr THEN SaveParams ELSE <<>>,
                        calls |-> IF h # nullptr THEN SaveCallsFrom(0) ELSE <<>>]
    /\ UNCHANGED <<num_voices, states, note, age, counter, num_out_channels,
                   max_frames, param, run>>

\* the restore done by resetting the pool before the writes
voice_alloc_restore_params_Unbind(saved) ==
    /\ ~Crashed
    /\ LET cs == RestoreCallsFrom(0, saved)
       IN  /\ param' = ApplyCalls(param, cs)
           /\ last' = [op |-> "restoreParams", a |-> NumParams, b |-> 0,
                       ret |-> -1, path |-> "none", outs |-> <<>>, calls |-> cs]
    /\ note' = [v \in Voices |-> FreeNote]
    /\ UNCHANGED <<num_voices, states, age, counter, num_out_channels,
                   max_frames, run>>

\* voice_alloc_restore_params: saved[i] to every index of every non-null
\* engine
voice_alloc_restore_params(saved) ==
    /\ ~Crashed
    /\ LET cs == RestoreCallsFrom(0, saved)
       IN  /\ param' = ApplyCalls(param, cs)
           /\ last' = [op |-> "restoreParams", a |-> NumParams, b |-> 0,
                       ret |-> -1, path |-> "none", outs |-> <<>>, calls |-> cs]
    /\ UNCHANGED <<num_voices, states, note, age, counter, num_out_channels,
                   max_frames, run>>

\* arrays handed to restore: what a save would yield now, or a zeroed array
SavedArrays == {SaveParams, [i \in 0..(NumParams - 1) |-> ParamDefault]}

\* notes delivered while parameters are saved and restored
PoolNotes == {60, 64}

NextParams ==
    \/ \E n \in PoolNotes, velocity \in Velocities :
          NoteOn(n, velocity) /\ HeapStep /\ UNCHANGED host
    \/ \E n \in PoolNotes : NoteOff(n) /\ HeapStep /\ UNCHANGED host
    \/ \E value \in ParamValues :
          SetGlobalParam(GlobalIdx, value) /\ HeapStep /\ UNCHANGED host
    \/ GetParam(GlobalIdx) /\ HeapStep /\ UNCHANGED host
    \/ \E stale \in StaleValues :
          Perform(1, stale) /\ HeapStep /\ UNCHANGED host
    \/ Reset /\ HeapStep /\ UNCHANGED host
    \/ voice_alloc_save_params /\ HeapStep /\ UNCHANGED host
    \/ \E saved \in SavedArrays :
          voice_alloc_restore_params(saved) /\ HeapStep /\ UNCHANGED host

SpecParams == Init /\ [][NextParams]_vars

(* ------------------------------------------------------------------------ *)
(* voice_alloc_perform with the channel count the wrapper hands it          *)
(* ------------------------------------------------------------------------ *)
\* the host's output pointer array, as a pointer value
HostOuts == -2

\* wrapper_num_outputs() of the exports explored: the usual one, and one
\* with more channels than the allocator keeps scratch buffers for
WideOutputs == {NumOutputs, VOICE_ALLOC_MAX_CHANNELS + 1}

\* what an element of scratch[] that the fill loop did not set, or that lies
\* past the end of the array, can read as
StrayPointers == {nullptr, WildPtr} \cup {voice_out[w] : w \in Voices}

\* scratch[] as engine v receives it: voice_out[v][ch] below out_ch, the
\* stray value p above
ScratchPointers(v, num_outs, out_ch, p) ==
    [ch \in 0..(num_outs - 1) |-> IF ch < out_ch THEN voice_out[v] ELSE p]

\* the wrapper_perform calls of voice_alloc_perform from voice v on, each
\* with the channel count and the output pointers it is given
RECURSIVE PerformPointerCallsFrom(_, _, _, _)
PerformPointerCallsFrom(v, num_outs, out_ch, p) ==
    IF v >= num_voices THEN <<>>
    ELSE (IF states[v] # nullptr
          THEN <<Call("perform", v, num_outs,
                      IF v = 0
                      THEN [ch \in 0..(num_outs - 1) |-> HostOuts]
                      ELSE ScratchPointers(v, num_outs, out_ch, p))>>
          ELSE <<>>)
         \o PerformPointerCallsFrom(v + 1, num_outs, out_ch, p)

\* voice_alloc_perform(va, ins, num_ins, outs, num_outs, nframes): an engine
\* that is handed a null or wild pointer for one of its num_outs channels
\* writes through it
voice_alloc_perform(num_outs, nframes, stale) ==
    /\ ~Crashed
    /\ LET out_ch == Min(num_outs, num_out_channels)
           overrun == /\ num_outs > out_ch
                      /\ \E v \in Voices : v >= 1 /\ states[v] # nullptr
       IN  \E p \in IF overrun THEN StrayPointers ELSE {nullptr} :
              last' = IF overrun /\ p \in {nullptr, WildPtr}
                      THEN [NoCall EXCEPT !.op = "crash", !.a = nframes,
                                          !.b = stale]
                      ELSE [op |-> "perform", a |-> nframes, b |-> stale,
                            ret |-> -1, path |-> "none",
                            outs |-> PerformOutputs(
                                         states[0],
                                         Buffers(num_outs, max_frames, stale),
                                         num_outs, nframes),
                            calls |-> PerformPointerCallsFrom(
                                          0, num_outs, out_ch, p)]
    /\ UNCHANGED <<num_voices, states, note, age, counter, num_out_channels,
                   max_frames, param, run>>

\* construction by a wrapper whose export has n outputs:
\* voice_alloc_init(va, n, max_frames), then voice_alloc_create_voices
InitWide ==
    /\ num_voices \in 1..MaxVoices
    /\ note = [v \in Voices |-> FreeNote]
    /\ age = [v \in Voices |-> 0]
    /\ counter = 0
    /\ max_frames = MaxFrames
    /\ \E n \in WideOutputs :
          /\ num_out_channels = Min(n, VOICE_ALLOC_MAX_CHANNELS)
          /\ host = [NoHost EXCEPT !.numOutputs = n]
    /\ voice_alloc_create_voices
    /\ last = NoCall
    /\ run = <<>>

NextWide ==
    \/ \E n \in PoolNotes, velocity \in Velocities :
          NoteOn(n, velocity) /\ HeapStep /\ UNCHANGED host
    \/ \E n \in PoolNotes : NoteOff(n) /\ HeapStep /\ UNCHANGED host
    \/ \E value \in ParamValues :
          SetGlobalParam(GlobalIdx, value) /\ HeapStep /\ UNCHANGED host
    \/ GetParam(GlobalIdx) /\ HeapStep /\ UNCHANGED host
    \/ \E stale \in StaleValues :
          voice_alloc_perform(host.numOutputs, 1, stale)
              /\ HeapStep /\ UNCHANGED host
    \/ Reset /\ HeapStep /\ UNCHANGED host

SpecWide == InitWide /\ [][NextWide]_vars

(* ------------------------------------------------------------------------ *)
(* A host that sends a note-off for every note-on it has sent               *)
(* ------------------------------------------------------------------------ *)
\* seq without its first element equal to n
RECURSIVE RemoveFirst(_, _)
RemoveFirst(seq, n) ==
    IF seq = <<>> THEN <<>>
    ELSE IF Head(seq) = n THEN Tail(seq)
    ELSE <<Head(seq)>> \o RemoveFirst(Tail(seq), n)

\* a note-on event forwarded to the pool: the key is now held
HostNoteOn(n, velocity) ==
    /\ NoteOn(n, velocity)
    /\ HeapStep
    /\ host' = [host EXCEPT !.held = Append(@, n)]

\* the note-off event of a held key forwarded to the pool
HostNoteOff(n) ==
    /\ \E i \in DOMAIN host.held : host.held[i] = n
    /\ NoteOff(n)
    /\ HeapStep
    /\ host' = [host EXCEPT !.held = RemoveFirst(@, n)]

NextBalanced ==
    \/ \E n \in Notes, velocity \in Velocities : HostNoteOn(n, velocity)
    \/ \E n \in Notes : HostNoteOff(n)

SpecBalanced == Init /\ [][NextBalanced]_vars

(* ------------------------------------------------------------------------ *)
(* Note numbers as the CLAP and VST3 events carry them                      *)
(* ------------------------------------------------------------------------ *)
\* ev->key and event.noteOn.pitch are signed 16-bit fields handed on as
\* they are: a MIDI note and a negative value
HostKeys == {-1, 60}

NextKeys ==
    \/ \E n \in HostKeys, velocity \in Velocities :
          NoteOn(n, velocity) /\ HeapStep /\ UNCHANGED host
    \/ \E n \in HostKeys : NoteOff(n) /\ HeapStep /\ UNCHANGED host
    \/ \E value \in ParamValues :
          SetGlobalParam(GlobalIdx, value) /\ HeapStep /\ UNCHANGED host
    \/ GetParam(GlobalIdx) /\ HeapStep /\ UNCHANGED host
    \/ \E stale \in StaleValues :
          Perform(1, stale) /\ HeapStep /\ UNCHANGED host
    \/ Reset /\ HeapStep /\ UNCHANGED host

SpecKeys == Init /\ [][NextKeys]_vars

(* ------------------------------------------------------------------------ *)
(* Properties                                                               *)
(* ------------------------------------------------------------------------ *)
IsFree(v) == note[v] = FreeNote
IsBound(v) == note[v] # FreeNote
AllBound == \A v \in Voices : IsBound(v)

\* the slot a steal must take: minimum age, lowest index among equals
MinAgeSlot ==
    CHOOSE v \in Voices :
        \A w \in Voices : age[v] < age[w] \/ (age[v] = age[w] /\ v <= w)

\* the lowest-index free slot
LowestFree == CHOOSE v \in Voices : IsFree(v) /\ \A w \in Voices : IsFree(w) => v <= w

\* C1 (P2, deterministic steal): when every slot is bound, the next noteOn
\* returns the slot of minimum age (lowest index on a tie), binds it to the
\* new note, and afterwards no slot is bound to the note the victim held.
C1_DeterministicSteal ==
    [][(last'.op = "noteOn" /\ AllBound)
         => /\ last'.ret = MinAgeSlot
            /\ note'[MinAgeSlot] = last'.a
            /\ \A w \in Voices : note'[w] # note[MinAgeSlot]]_vars

RunNotes == {run[i][1] : i \in DOMAIN run}
RunVoices == {run[i][2] : i \in DOMAIN run}

\* C2 (P1, distinct assignment): after num_voices consecutive noteOn calls
\* with pairwise distinct notes on a pool that was all free, with no noteOff
\* in between, the voice ids returned are pairwise distinct and the slots
\* hold exactly the notes issued, each once.
C2_DistinctAssignment ==
    (Len(run) = num_voices /\ Cardinality(RunNotes) = num_voices)
        => /\ Cardinality(RunVoices) = num_voices
           /\ RunVoices = Voices
           /\ \A i \in DOMAIN run : note[run[i][2]] = run[i][1]
           /\ \A k \in RunNotes : Cardinality({v \in Voices : note[v] = k}) = 1
           /\ \A v \in Voices : note[v] \in RunNotes

C2_Witness ==
    /\ num_voices = 2
    /\ Len(run) = 2
    /\ Cardinality(RunNotes) = 2
    /\ last.op = "noteOn"

\* C3 (first-free selection): whenever some slot is free, noteOn returns
\* the lowest-index free slot and leaves the note and age of every bound
\* slot as they were; after a noteOff freed the only free slot j, the next
\* noteOn returns j.
C3_FirstFree ==
    [][(last'.op = "noteOn" /\ \E v \in Voices : IsFree(v))
         => /\ last'.ret = LowestFree
            /\ last'.path = "free"
            /\ \A w \in Voices :
                  IsBound(w) => note'[w] = note[w] /\ age'[w] = age[w]
            /\ (last.op = "noteOff" /\ last.path = "match"
                /\ Cardinality({v \in Voices : IsFree(v)}) = 1)
                  => IsFree(last'.ret)]_vars

C3_Witness ==
    /\ last.op = "noteOn"
    /\ last.path = "free"
    /\ \E w \in Voices :
          /\ last.ret < w
          /\ IsBound(w)
          /\ age[w] < age[last.ret]

\* C4 (note uniqueness): in every reachable state no two slots are bound to
\* the same note number k >= 0.
C4_NoteUniqueness ==
    \A v, w \in Voices : (v # w /\ note[v] >= 0) => note[v] # note[w]

\* C5 (P3, note-off no-op): a noteOff for a note no slot is bound to leaves
\* every note and age, the counter and every engine parameter unchanged,
\* makes no engine call and returns normally.
C5_NoteOffNoOp ==
    [][(last'.op = "noteOff" /\ \A v \in Voices : note[v] # last'.a)
         => /\ UNCHANGED <<note, age, counter, param, states>>
            /\ last'.calls = <<>>
            /\ last'.op = "noteOff"
            /\ last'.path = "nomatch"]_vars

C5_Witness ==
    /\ last.op = "noteOff"
    /\ last.path = "nomatch"
    /\ \E v \in Voices :
          /\ IsBound(v)
          /\ states[v] # nullptr
          /\ param[v][MIDI_GATE_IDX] = 1

\* the engine calls of kind fn made on slot v by the last operation
CallsOn(cs, fn, v) == {i \in DOMAIN cs : cs[i].fn = fn /\ cs[i].v = v}

\* C6 (P7, reset): reset leaves every slot free and the counter 0, calls
\* the engine reset exactly once on each non-null handle and nothing else,
\* keeps every handle; the noteOn that follows binds a slot to its note and
\* returns that slot's id.
C6_Reset ==
    [][/\ last'.op = "reset"
          => /\ \A v \in Voices : note'[v] = FreeNote
             /\ counter' = 0
             /\ states' = states
             /\ \A v \in Voices :
                   Cardinality(CallsOn(last'.calls, "reset", v))
                       = IF states[v] # nullptr THEN 1 ELSE 0
             /\ \A i \in DOMAIN last'.calls : last'.calls[i].fn = "reset"
       /\ (last.op = "reset" /\ last'.op = "noteOn")
          => /\ last'.ret \in Voices
             /\ note'[last'.ret] = last'.a
             /\ states' = states]_vars

C6_Witness ==
    /\ last.op = "reset"
    /\ num_voices = 2
    /\ Len(last.calls) = 2
    /\ age[1] > 0
    /\ param = [v \in Voices |-> [i \in 0..(NumParams - 1) |-> ParamDefault]]

\* C7 (P6, global broadcast round-trip), as claimed: after
\* setGlobalParam(i, v) for a parameter index i, every slot's engine holds
\* v at i, and a getGlobalParam(i) that follows immediately returns v,
\* reading slot 0's engine only.
C7_BroadcastRoundTrip ==
    [][/\ (last'.op = "setGlobalParam" /\ ValidParam(last'.a))
          => \A v \in Voices :
                states[v] # nullptr => param'[v][last'.a] = last'.b
       /\ (last.op = "setGlobalParam" /\ ValidParam(last.a)
           /\ last'.op = "getParam" /\ last'.a = last.a)
          => last'.ret = last.b]_vars

\* C7 as the code has it: the round trip returns v when slot 0's handle is
\* non-null and 0 when it is null; every non-null handle's engine holds v;
\* get_param calls slot 0's engine and no other.
C7_BroadcastRoundTripAmended ==
    [][/\ (last'.op = "setGlobalParam" /\ ValidParam(last'.a))
          => \A v \in Voices :
                states[v] # nullptr => param'[v][last'.a] = last'.b
       /\ (last.op = "setGlobalParam" /\ ValidParam(last.a)
           /\ last'.op = "getParam" /\ last'.a = last.a)
          => last'.ret = IF states[0] # nullptr THEN last.b ELSE 0
       /\ last'.op = "getParam"
          => /\ \A i \in DOMAIN last'.calls :
                    last'.calls[i].fn = "get_param" /\ last'.calls[i].v = 0
             /\ ValidParam(last'.a) /\ states[0] # nullptr
                    => last'.ret = param[0][last'.a]]_vars

C7_Witness ==
    /\ last.op = "getParam"
    /\ last.a = GlobalIdx
    /\ last.ret = 1
    /\ num_voices = 2
    /\ \A v \in Voices : states[v] # nullptr /\ param[v][GlobalIdx] = 1

\* C8 (inert-slot exclusion): a slot whose engine handle is null is never
\* bound; its note stays -1 in every reachable state.
C8_InertNeverBound ==
    \A v \in Voices : states[v] = nullptr => note[v] = FreeNote

\* C9 (zero polyphony): in a build with no voice, noteOn writes no note,
\* no age and not the counter, and returns a value that is no slot index.
C9_ZeroPolyphonyNoOp ==
    [][(num_voices = 0 /\ last'.op = "noteOn")
         => /\ UNCHANGED <<note, age, counter>>
            /\ last'.ret \notin Voices]_vars

\* sum of the levels of the engines of the slots in S
RECURSIVE LevelSum(_)
LevelSum(S) ==
    IF S = {} THEN 0
    ELSE LET v == CHOOSE x \in S : TRUE IN EngineLevel(v) + LevelSum(S \ {v})

\* C10 (P4, linearity of mixing): after perform, every sample of every
\* output channel below the frame count equals the plain sum of the levels
\* of all slots with a non-null handle, not divided by the voice count.
C10_MixIsPlainSum ==
    last.op = "perform"
        => \A ch \in 0..(NumOutputs - 1) : \A s \in 0..(last.a - 1) :
              last.outs[ch][s] = LevelSum({v \in Voices : states[v] # nullptr})

C10_Witness ==
    /\ last.op = "perform"
    /\ num_voices = 2
    /\ \A v \in Voices : states[v] # nullptr /\ IsBound(v)
    /\ last.a = MaxFrames
    /\ \A ch \in 0..(NumOutputs - 1) : \A s \in 0..(last.a - 1) :
          last.outs[ch][s] = EngineLevel(0) + EngineLevel(1)

\* C11 (P5, silence on inert slot 0): when slot 0's handle is null, after
\* perform every sample of every output channel below the frame count
\* equals the sum of the levels of the non-null slots 1..N-1 only; nothing
\* the host buffer held before the call is left in it.
C11_SilentSlotZero ==
    (last.op = "perform" /\ states[0] = nullptr)
        => \A ch \in 0..(NumOutputs - 1) : \A s \in 0..(last.a - 1) :
              last.outs[ch][s]
                  = LevelSum({v \in Voices : v >= 1 /\ states[v] # nullptr})

C11_Witness ==
    /\ last.op = "perform"
    /\ num_voices = 2
    /\ states[0] = nullptr
    /\ states[1] # nullptr
    /\ last.b \in StaleValues
    /\ last.a = MaxFrames
    /\ \A ch \in 0..(NumOutputs - 1) : \A s \in 0..(last.a - 1) :
          last.outs[ch][s] = EngineLevel(1)

\* C17 (global-parameter agreement): in every reachable state, whatever
\* noteOn, noteOff, perform, reset and broadcasts came before, all slots
\* with a non-null handle hold the same value at the global parameter
\* index, so reading it from any of them equals reading it from slot 0.
C17_GlobalAgreement ==
    \A v \in Voices : \A w \in Voices :
        (states[v] # nullptr /\ states[w] # nullptr)
            => wrapper_get_param(param, v, GlobalIdx)
                   = wrapper_get_param(param, w, GlobalIdx)

C17_Witness ==
    /\ last.op = "noteOn"
    /\ num_voices = 2
    /\ \A v \in Voices : states[v] # nullptr
    /\ \A v \in Voices : param[v][GlobalIdx] = 1
    /\ param[0][MIDI_FREQ_IDX] # param[1][MIDI_FREQ_IDX]

C13_NoAllocationInSteadyState ==
    [][(last'.op \in {"noteOn", "noteOff", "setGlobalParam", "getParam",
                      "perform", "reset"})
         => /\ \A i \in DOMAIN last'.calls :
                  last'.calls[i].fn \notin {"create", "destroy", "calloc", "free"}
            /\ UNCHANGED <<states, voice_out, heap>>]_vars

C13_Witness ==
    /\ last.op = "reset"
    /\ num_voices = 2
    /\ \A v \in Voices : states[v] # nullptr /\ voice_out[v] # nullptr
    /\ Len(last.calls) = 2
    /\ heap = [handles |-> 2, bufs |-> 2]
    /\ host = NoHost

\* C14 (engine lifecycle without leaks): over any sequence of lifecycle
\* calls, every live engine handle and every live scratch allocation is the
\* one some slot's pointer refers to (no pointer was overwritten or zeroed
\* while its object lived), at most num_voices handles are live, and after
\* teardown nothing is live.
C14_LifecycleNoLeak ==
    /\ heap.handles = Cardinality({v \in Voices : states[v] # nullptr})
    /\ heap.bufs = Cardinality({v \in Voices : voice_out[v] # nullptr})
    /\ heap.handles <= num_voices
    /\ host.phase = "gone" => heap = [handles |-> 0, bufs |-> 0]

\* C15 (slots start Free at activation): right after every call that takes
\* a wrapper from inactive to active (CLAP activate, VST3 setActive(true),
\* AU Initialize, LV2 activate) every slot's note is -1, whatever was bound
\* when the wrapper was deactivated.
C15_FreeAtActivation ==
    [][(host.kind \in Hosts /\ host.phase = "inactive" /\ host'.phase = "active")
         => \A v \in Voices : note'[v] = FreeNote]_vars

\* a call that ran voice_alloc_destroy
IsDestroy(l) ==
    \/ l.op \in {"terminate", "destructor", "clap_gen_destroy", "AUGenClose",
                 "lv2_gen_cleanup"}
    \/ l.op = "setActive" /\ l.a = 0

\* C18 (destroy is idempotent): a destroy that follows a destroy (VST3
\* terminate and then the destructor) leaves the pool as the first one left
\* it, every handle null, every scratch pointer null, every note -1, and
\* destroys no engine and frees no buffer again: it makes no
\* wrapper_destroy call and only free(nullptr) calls.
C18_DestroyIdempotent ==
    [][(IsDestroy(last) /\ IsDestroy(last'))
         => /\ UNCHANGED <<states, voice_out, note, age, counter, param, heap>>
            /\ states' = NullPointers
            /\ voice_out' = NullPointers
            /\ \A v \in Voices : note'[v] = FreeNote
            /\ \A i \in DOMAIN last'.calls :
                  /\ last'.calls[i].fn = "free"
                  /\ last'.calls[i].val = nullptr]_vars

C18_Witness ==
    /\ last.op = "destructor"
    /\ host.kind = "vst3"
    /\ host.phase = "gone"
    /\ Len(last.calls) = num_voices
    /\ \A i \in DOMAIN last.calls :
          last.calls[i].fn = "free" /\ last.calls[i].val = nullptr
    /\ states = NullPointers

\* C19 (frame-count bound): every voice_alloc_perform a wrapper has called
\* was given a frame count no larger than the max_frames the scratch
\* buffers were allocated with, so no scratch buffer is run past its end.
C19_FrameCountWithinMax ==
    (host.kind \in Hosts /\ last.op \in {"perform", "crash"})
        => last.a <= max_frames

\* the parameter indices no note writes to
GlobalIndices == (0..(NumParams - 1)) \ {MIDI_GATE_IDX, MIDI_FREQ_IDX, MIDI_VEL_IDX}

\* C16 (save/restore round trip): save, reset, restore, as AUGenReset runs
\* them, leaves every slot with a non-null handle holding, at every global
\* parameter index, the value slot 0's engine held there before the save.
C16_SaveRestoreRoundTrip ==
    [][(last'.op = "AUGenReset" /\ last'.a = 1)
         => \A v \in Voices : \A i \in GlobalIndices :
               states[v] # nullptr
                   => wrapper_get_param(param', v, i) = wrapper_get_param(param, 0, i)]_vars

C16_Witness ==
    /\ last.op = "AUGenReset"
    /\ last.a = 1
    /\ num_voices = 2
    /\ \A v \in Voices : states[v] # nullptr /\ param[v][GlobalIdx] = 1
    /\ \E i \in DOMAIN last.calls : last.calls[i].fn = "reset"
    /\ \A v \in Voices : note[v] = FreeNote

\* the wrappers that take a block's events in their process callback
BlockHosts == {"clap", "vst3", "lv2"}

RECURSIVE AllPoints(_)
AllPoints(queues) ==
    IF queues = <<>> THEN <<>>
    ELSE LET q == Head(queues) IN
         [k \in 1..Len(q.points) |-> Ev("param", q.id, q.points[k])]
             \o AllPoints(Tail(queues))

RECURSIVE FinalPoints(_)
FinalPoints(queues) ==
    IF queues = <<>> THEN <<>>
    ELSE LET q == Head(queues) IN
         <<Ev("param", q.id, q.points[Len(q.points)])>> \o FinalPoints(Tail(queues))

InRange(e) == e.type = "param" => ValidParam(e.a)

\* the control port values of an LV2 block, written after its events
PortWrites(d) == [k \in DOMAIN d.ports |-> Ev("port", k - 1, d.ports[k])]

\* the last engine-facing call is the application of event e
Applies(e) ==
    \/ e.type = "on" /\ last.op \in {"noteOn", "crash"} /\ last.a = e.a
    \/ e.type = "off" /\ last.op = "noteOff" /\ last.a = e.a
    \/ e.type \in {"param", "port"} /\ last.op = "setGlobalParam"
          /\ last.a = e.a /\ last.b = e.b

\* what holds of a block whose note and parameter events to apply are evs
BlockOrder(evs) ==
    host.kind \in BlockHosts
        => /\ host.applied \o host.pending = evs \o PortWrites(host.delivered)
           /\ last.op \in {"perform", "crash"}
                 => host.pc = "idle" /\ host.pending = <<>> /\ last.a = host.frames
           /\ last.op \in {"noteOn", "noteOff", "setGlobalParam"}
                 => /\ host.pc = "events"
                    /\ host.applied # <<>>
                    /\ Applies(host.applied[Len(host.applied)])

\* C12 (event/perform ordering), as claimed: in the process callback of
\* CLAP, VST3 and LV2 every note event and every parameter event delivered
\* for the block (every point of every VST3 parameter queue) is applied, in
\* the order delivered, before voice_alloc_perform runs for the block, and
\* no event is applied outside a block's event loop.
C12_EventsBeforePerform ==
    BlockOrder(SelectSeq(AllPoints(host.delivered.queues) \o host.delivered.events,
                         InRange))

\* C12 as the code has it: of a VST3 parameter queue only the last point is
\* applied, the queues before the event list; everything else as claimed.
C12_EventsBeforePerformAmended ==
    BlockOrder(SelectSeq(FinalPoints(host.delivered.queues) \o host.delivered.events,
                         InRange))

C12_Witness ==
    /\ last.op = "perform"
    /\ host.kind = "vst3"
    /\ host.delivered.queues = <<Queue(GlobalIdx, <<1, 0>>)>>
    /\ host.delivered.events = <<Ev("on", 60, 1), Ev("off", 60, 0)>>
    /\ host.applied
          = <<Ev("param", GlobalIdx, 0), Ev("on", 60, 1), Ev("off", 60, 0)>>
    /\ \A v \in Voices : states[v] # nullptr => param[v][GlobalIdx] = 0

\* C21 (steal gate-off ordering): a noteOn that steals a bound slot writes to
\* the victim's engine gate = 0 first and then, after the slot is rebound to
\* the new note with the counter's value as age, gate = 1, the frequency and
\* the velocity; no other slot's engine receives a write during that noteOn.
C21_StealGateOffOrdering ==
    (last.op = "noteOn" /\ last.path = "steal")
        => LET v == last.ret IN
           /\ v \in Voices
           /\ note[v] = last.a
           /\ age[v] = counter - 1
           /\ \A i \in DOMAIN last.calls : last.calls[i].v = v
           /\ last.calls =
                 IF states[v] # nullptr
                 THEN <<Call("set_param", v, MIDI_GATE_IDX, 0),
                        Call("set_param", v, MIDI_GATE_IDX, 1),
                        Call("set_param", v, MIDI_FREQ_IDX, last.a),
                        Call("set_param", v, MIDI_VEL_IDX, last.b)>>
                 ELSE <<>>
           /\ states[v] # nullptr
                 => /\ param[v][MIDI_GATE_IDX] = 1
                    /\ param[v][MIDI_FREQ_IDX] = last.a
                    /\ param[v][MIDI_VEL_IDX] = last.b

C21_Witness ==
    /\ num_voices = 2
    /\ last.op = "noteOn"
    /\ last.path = "steal"
    /\ last.ret = 0
    /\ states[0] # nullptr
    /\ states[1] # nullptr
    /\ Len(last.calls) = 4

\* C22 (noteOn postcondition and frame): with at least one voice and a note
\* in 0..127, noteOn(note, vel) returns a slot v of the pool; afterwards slot
\* v is bound to note with the age the counter had before the call; a
\* non-null engine of slot v holds gate 1, the note number (raw-note mode)
\* and vel at the designated indices; the note, the age and the engine
\* parameters of every other slot are as before.
C22_NoteOnPostcondition ==
    [][(last'.op = "noteOn" /\ num_voices >= 1 /\ last'.a \in 0..127)
         => LET v == last'.ret IN
            /\ v \in Voices
            /\ note'[v] = last'.a
            /\ age'[v] = counter
            /\ states[v] # nullptr
                  => /\ param'[v][MIDI_GATE_IDX] = 1
                     /\ param'[v][MIDI_FREQ_IDX] = last'.a
                     /\ param'[v][MIDI_VEL_IDX] = last'.b
            /\ \A w \in Voices \ {v} :
                  /\ note'[w] = note[w]
                  /\ age'[w] = age[w]
                  /\ param'[w] = param[w]]_vars

C22_Witness ==
    /\ num_voices = 2
    /\ last.op = "noteOn"
    /\ last.ret = 1
    /\ states[1] # nullptr
    /\ param[1][MIDI_FREQ_IDX] = last.a
    /\ note[0] # FreeNote
    /\ note[0] # note[1]

\* ref * 2^((n - 69) / 12) in thousandths of a hertz
EqualTempered(ref, n) ==
    LET k == n - 69
        o == k \div 12
        r == ref * SemitoneRatio[(k % 12) + 1]
    IN  IF o >= 0 THEN r * (2 ^ o) ELSE r \div (2 ^ (0 - o))

\* the frequency parameter of the slot the last noteOn returned
WrittenFrequency == param[last.ret][MIDI_FREQ_IDX]

HzNoteOn ==
    /\ last.op = "noteOn"
    /\ host.freq_unit_hz
    /\ states[last.ret] # nullptr

\* C23 (Hz conversion reference pitch, as stated): in a build whose frequency
\* parameter is in hertz, noteOn(note, vel) writes 443.0 * 2^((note-69)/12)
\* to the frequency index of the selected engine: 443.0 for note 69 and
\* 886.0 for note 81.
C23_HzReference443 ==
    HzNoteOn
        => /\ WrittenFrequency = EqualTempered(443, last.a)
           /\ last.a = 69 => WrittenFrequency = 443 * 1000
           /\ last.a = 81 => WrittenFrequency = 886 * 1000

\* C23 (amended): the reference pitch is 440.0: noteOn(note, vel) writes
\* 440.0 * 2^((note-69)/12), which is 440.0 for note 69 and 880.0 for 81.
C23_HzReference440 ==
    HzNoteOn
        => /\ WrittenFrequency = EqualTempered(440, last.a)
           /\ last.a = 69 => WrittenFrequency = 440 * 1000
           /\ last.a = 81 => WrittenFrequency = 880 * 1000

C23_Witness ==
    /\ HzNoteOn
    /\ last.a = 81
    /\ WrittenFrequency = 880 * 1000

\* the lowest-index slot bound to note k
LowestBoundTo(k) ==
    CHOOSE v \in Voices : note[v] = k /\ \A w \in Voices : note[w] = k => v <= w

\* C24 (matched noteOff releases one slot): noteOff(k) with at least one
\* slot bound to k writes gate = 0 to the engine of the lowest-index such
\* slot when that engine is non-null, frees that slot only, resets no
\* engine, and leaves that slot's age, every other slot (other slots bound
\* to k included) and the counter unchanged.
C24_MatchedNoteOff ==
    [][(last'.op = "noteOff" /\ \E v \in Voices : note[v] = last'.a)
         => LET m == LowestBoundTo(last'.a) IN
            /\ last'.calls = IF states[m] # nullptr
                             THEN <<Call("set_param", m, MIDI_GATE_IDX, 0)>>
                             ELSE <<>>
            /\ note' = [note EXCEPT ![m] = FreeNote]
            /\ states[m] # nullptr
                  => param' = [param EXCEPT ![m][MIDI_GATE_IDX] = 0]
            /\ states[m] = nullptr => param' = param
            /\ UNCHANGED <<age, counter, states>>]_vars

\* noteOff(60) released slot 0 while slot 1 stays bound to 60
C24_Witness ==
    /\ num_voices = 2
    /\ last.op = "noteOff"
    /\ last.path = "match"
    /\ note[0] = FreeNote
    /\ note[1] = last.a
    /\ states[0] # nullptr
    /\ param[0][MIDI_GATE_IDX] = 0
    /\ param[1][MIDI_GATE_IDX] = 1

\* slot a was bound to k first and slot b, a different slot, was bound to k
\* by a later noteOn while a was still bound: ages come from the counter,
\* which only a reset (which frees both) sets back
Duplicated(a, b, k) ==
    /\ a # b
    /\ note[a] = k
    /\ note[b] = k
    /\ age[a] < age[b]

\* C25 (duplicate note-on orphans the original, as stated): once a second
\* noteOn(k) has bound a slot b while slot a is still bound to k, no
\* noteOff(k) releases slot a.
C25_OriginalOrphaned ==
    [][\A a, b \in Voices :
          (last'.op = "noteOff" /\ Duplicated(a, b, last'.a))
              => note'[a] = last'.a]_vars

\* C25 (amended): while some note k is held by more than one slot, noteOff(k)
\* releases the lowest-index slot bound to k, the original included, sends
\* its engine the gate-off, and leaves every other slot bound to k as it
\* was, its engine untouched.
C25_LowestDuplicateReleased ==
    [][(/\ last'.op = "noteOff"
        /\ \E a, b \in Voices : Duplicated(a, b, last'.a))
          => LET m == LowestBoundTo(last'.a) IN
             /\ note'[m] = FreeNote
             /\ states[m] # nullptr => param'[m][MIDI_GATE_IDX] = 0
             /\ \A w \in Voices \ {m} :
                   /\ note'[w] = note[w]
                   /\ param'[w] = param[w]]_vars

\* the original (slot 0, the smaller age) was released by noteOff(k) and the
\* duplicate (slot 1) is still bound to k
C25_Witness ==
    /\ num_voices = 2
    /\ last.op = "noteOff"
    /\ last.path = "match"
    /\ note[0] = FreeNote
    /\ note[1] = last.a
    /\ age[0] < age[1]
    /\ states[0] # nullptr
    /\ states[1] # nullptr
    /\ param[0][MIDI_GATE_IDX] = 0
    /\ param[0][MIDI_FREQ_IDX] = last.a

\* the operations that are neither a noteOn nor a reset
KeepsCounterOps == {"noteOff", "setGlobalParam", "getParam", "perform",
                    "saveParams", "restoreParams"}

\* C26 (counter discipline): the counter goes up by exactly 1 on every
\* noteOn that binds a slot; noteOff, setGlobalParam, getGlobalParam,
\* perform, saveParams and restoreParams leave it alone; only reset sets it
\* to 0; an age is stored only by the noteOn that binds the slot and is the
\* value the counter had at that moment, so the age of a bound slot is
\* below the counter.
C26_CounterDiscipline ==
    [][/\ last'.op = "noteOn"
             => /\ counter' = counter + 1
                /\ age'[last'.ret] = counter
       /\ last'.op \in KeepsCounterOps => counter' = counter
       /\ counter' # counter => last'.op \in {"noteOn", "reset"}
       /\ counter' < counter => (last'.op = "reset" /\ counter' = 0)
       /\ last'.op = "reset" => counter' = 0
       /\ \A v \in Voices :
             /\ age'[v] # age[v]
                   => (last'.op = "noteOn" /\ last'.ret = v /\ age'[v] = counter)
             /\ note'[v] # FreeNote => age'[v] < counter']_vars

\* a second binding: the counter is 2 and the newest slot carries age 1
C26_Witness ==
    /\ num_voices = 2
    /\ last.op = "noteOn"
    /\ counter = 2
    /\ age[last.ret] = 1
    /\ \E v \in Voices : v # last.ret /\ IsBound(v) /\ age[v] = 0

\* the operations that never touch a binding
KeepsBindingOps == {"setGlobalParam", "getParam", "perform", "saveParams",
                    "restoreParams"}

\* C27 (binding frame and per-slot state machine): a slot's note and age
\* change only when a noteOn selects the slot (free to active, or active to
\* active when it is stolen with every slot bound), when a noteOff matches
\* its note (active to free), or on reset (to free); perform,
\* setGlobalParam, getGlobalParam, saveParams and restoreParams change no
\* slot's note or age.
C27_BindingFrame ==
    [][/\ last'.op \in KeepsBindingOps => UNCHANGED <<note, age>>
       /\ \A v \in Voices :
             (note'[v] # note[v] \/ age'[v] # age[v])
                 => \/ /\ last'.op = "noteOn"
                       /\ last'.ret = v
                       /\ note'[v] = last'.a
                       /\ IsBound(v) => AllBound
                    \/ /\ last'.op = "noteOff"
                       /\ note[v] = last'.a
                       /\ note'[v] = FreeNote
                       /\ age'[v] = age[v]
                    \/ /\ last'.op = "reset"
                       /\ note'[v] = FreeNote
                       /\ age'[v] = age[v]]_vars

\* a restore ran on a pool with a bound slot and a slot released earlier
C27_Witness ==
    /\ num_voices = 2
    /\ last.op = "restoreParams"
    /\ Len(last.calls) = 2 * NumParams
    /\ IsFree(0)
    /\ note[1] = 64
    /\ age[1] = 1
    /\ param[1][MIDI_FREQ_IDX] = 60

\* C28 (every healthy engine runs every block): a perform call invokes the
\* engine perform of every slot with a non-null handle exactly once, bound
\* or free, makes no other engine call, and makes no call for a slot whose
\* handle is null.
C28_EveryHealthyEngineRuns ==
    last.op = "perform"
        => /\ \A v \in Voices :
                 Cardinality(CallsOn(last.calls, "perform", v))
                     = IF states[v] # nullptr THEN 1 ELSE 0
           /\ \A i \in DOMAIN last.calls :
                 /\ last.calls[i].fn = "perform"
                 /\ last.calls[i].v \in Voices
           /\ Len(last.calls) = Cardinality({v \in Voices : states[v] # nullptr})

\* perform on a pool whose slot 0 was released (gate 0, note still in the
\* frequency parameter) and whose slot 1 has no engine
C28_Witness ==
    /\ num_voices = 2
    /\ last.op = "perform"
    /\ IsFree(0)
    /\ states[0] # nullptr
    /\ param[0][MIDI_GATE_IDX] = 0
    /\ param[0][MIDI_FREQ_IDX] = 60
    /\ states[1] = nullptr
    /\ last.calls = <<Call("perform", 0, 0, 0)>>
    /\ last.outs[0][0] = EngineLevel(0)

\* the wrapper_* functions that take an engine handle
EngineCalls == {"set_param", "get_param", "perform", "reset"}

PoolOps == {"noteOn", "noteOff", "setGlobalParam", "getParam", "perform",
            "reset", "saveParams", "restoreParams"}

\* C29 (no engine call on a null handle): whatever slots are inert, none of
\* noteOn (free or steal path), noteOff, setGlobalParam, getGlobalParam,
\* perform, reset, saveParams and restoreParams calls set-parameter,
\* get-parameter, perform or reset on a null handle, none of them ends in a
\* crash, and getGlobalParam returns 0 when slot 0 is inert.
C29_NoCallOnNullHandle ==
    /\ last.op \in PoolOps \cup {"none"}
    /\ \A i \in DOMAIN last.calls :
          /\ last.calls[i].fn \in EngineCalls
          /\ last.calls[i].v \in Voices
          /\ states[last.calls[i].v] # nullptr
    /\ (last.op = "getParam" /\ states[0] = nullptr) => last.ret = 0
    /\ (last.op = "saveParams" /\ states[0] = nullptr) => last.calls = <<>>

\* a steal whose victim has no engine: the slot is rebound and nothing is
\* called
C29_Witness ==
    /\ last.op = "noteOn"
    /\ last.path = "steal"
    /\ states[last.ret] = nullptr
    /\ note[last.ret] = last.a
    /\ last.calls = <<>>

\* the slot the last operation released: the one its gate-off went to
JustReleased ==
    IF last.op = "noteOff" /\ last.path = "match" /\ last.calls # <<>>
    THEN last.calls[1].v ELSE -1

\* C30 (round-robin allocation among free voices): when the operation
\* before a noteOn released slot r and another slot was already free, the
\* noteOn does not select r again: the slot that has been free longer is
\* taken first.
C30_RoundRobin ==
    [][(/\ last'.op = "noteOn"
        /\ JustReleased >= 0
        /\ \E w \in Voices : w # JustReleased /\ IsFree(w))
          => last'.ret # JustReleased]_vars

\* C31 (voice_alloc_reset preserves allocator state): reset only resets each
\* voice's engine and leaves the note bindings, the ages and the allocation
\* counter as they were before the call.
C31_ResetPreservesAllocatorState ==
    [][last'.op = "reset" => UNCHANGED <<note, age, counter>>]_vars

\* C32 (scratch buffers are private and valid): in every perform call, each
\* of the num_outs output pointers handed to the engine of a voice v >= 1 is
\* the allocated scratch buffer of slot v: not the host's buffer, not
\* another slot's buffer, not null and not uninitialised, whatever num_outs
\* the wrapper passes relative to the num_out_channels fixed at init.
C32_ScratchPrivateAndValid ==
    /\ ~Crashed
    /\ last.op = "perform"
          => \A i \in DOMAIN last.calls :
                LET c == last.calls[i] IN
                c.v >= 1
                    => \A ch \in DOMAIN c.val :
                          /\ c.val[ch] = voice_out[c.v]
                          /\ c.val[ch] \notin {nullptr, WildPtr, HostOuts}
                          /\ \A w \in Voices \ {c.v} : c.val[ch] # voice_out[w]

\* what a pool holds that a later decision may depend on: the bindings, the
\* counter and the ages of the bound slots; the age of a free slot is masked
Live ==
    [note |-> note,
     counter |-> counter,
     age |-> [v \in Voices |-> IF note[v] # FreeNote THEN age[v] ELSE 0]]

\* Live of a freshly initialised pool
FreshLive ==
    [note |-> [v \in Voices |-> FreeNote],
     counter |-> 0,
     age |-> [v \in Voices |-> 0]]

\* noteOn(n) worked out from L alone: the slot returned and the L after it
LiveNoteOn(L, n) ==
    LET free == {v \in Voices : L.note[v] = FreeNote}
        voice == IF free # {}
                 THEN CHOOSE v \in free : \A w \in free : v <= w
                 ELSE CHOOSE v \in Voices :
                         \A w \in Voices :
                            \/ L.age[v] < L.age[w]
                            \/ (L.age[v] = L.age[w] /\ v <= w)
    IN  [ret |-> voice,
         live |-> [note |-> [L.note EXCEPT ![voice] = n],
                   counter |-> L.counter + 1,
                   age |-> [L.age EXCEPT ![voice] = L.counter]]]

\* noteOff(n) worked out from L alone
LiveNoteOff(L, n) ==
    LET bound == {v \in Voices : L.note[v] = n}
    IN  IF bound = {} THEN L
        ELSE LET m == CHOOSE v \in bound : \A w \in bound : v <= w
             IN  [L EXCEPT !.note[m] = FreeNote, !.age[m] = 0]

\* C33 (reset is equivalent to a fresh pool): reset leaves the pool with the
\* bindings and the counter of a freshly initialised pool, and every noteOn
\* and noteOff returns the voice id and reaches the bindings, counter and
\* bound-slot ages that follow from the bindings, counter and bound-slot
\* ages before it alone; so after any history and a reset the same event
\* sequence gives the same ids, notes and age order as on a fresh pool, and
\* an age left over from before the reset never enters a steal decision.
C33_ResetEquivalentToFresh ==
    [][/\ last'.op = "reset" => Live' = FreshLive
       /\ last'.op = "noteOn"
             => /\ last'.ret = LiveNoteOn(Live, last'.a).ret
                /\ Live' = LiveNoteOn(Live, last'.a).live
       /\ last'.op = "noteOff" => Live' = LiveNoteOff(Live, last'.a)]_vars

\* the first noteOn after a reset of a used pool: slot 1 is free and still
\* carries the age of a binding made before the reset
C33_Witness ==
    /\ num_voices = 2
    /\ last.op = "noteOn"
    /\ last.ret = 0
    /\ counter = 1
    /\ IsFree(1)
    /\ age[1] >= counter

\* the bound slots of smallest age
OldestBound ==
    {v \in Voices : IsBound(v) /\ \A w \in Voices : IsBound(w) => age[v] <= age[w]}

\* C34 (ages of bound slots are distinct): in every state reached by noteOn,
\* noteOff and reset, two different bound slots have different ages and the
\* age of a bound slot is below the counter; so when every slot is bound
\* exactly one slot has the smallest age, and the steal takes it.
C34_BoundAgesDistinct ==
    /\ \A v, w \in Voices :
          (v # w /\ IsBound(v) /\ IsBound(w)) => age[v] # age[w]
    /\ \A v \in Voices : IsBound(v) => age[v] < counter
    /\ AllBound => Cardinality(OldestBound) = 1

\* a full pool after a steal: the stolen slot 0 is now the newest
C34_Witness ==
    /\ num_voices = 2
    /\ AllBound
    /\ last.op = "noteOn"
    /\ last.path = "steal"
    /\ age[0] = 2
    /\ age[1] = 1
    /\ OldestBound = {1}

\* C35 (balanced events drain the pool): once every noteOn(k) of an event
\* sequence has been followed by its own noteOff(k), duplicates of a note
\* and more simultaneous notes than voices (steals) included, every slot is
\* free; while keys are held, no more slots are bound to a note than keys
\* of that note are held.
C35_BalancedEventsDrain ==
    /\ host.held = <<>> => \A v \in Voices : IsFree(v)
    /\ \A k \in Notes :
          Cardinality({v \in Voices : note[v] = k})
              <= Cardinality({i \in DOMAIN host.held : host.held[i] = k})

\* a drained pool whose last note-off found its note's slot already taken
\* from it by a steal
C35_Witness ==
    /\ host.held = <<>>
    /\ last.op = "noteOff"
    /\ last.path = "nomatch"
    /\ counter = MaxCounter
    /\ \A v \in Voices : IsFree(v)

\* C36 (no stuck gate after a host reset): after the AU reset sequence
\* save_params; reset; restore_params, run from any reachable state, every
\* slot is free and no engine holds gate 1: the restore does not put slot
\* 0's gate, frequency or velocity onto the voices.
C36_NoStuckGateAfterReset ==
    (last.op = "AUGenReset" /\ last.a = 1)
        => \A v \in Voices :
              /\ IsFree(v)
              /\ states[v] # nullptr
                    => /\ param[v][MIDI_GATE_IDX] # 1
                       /\ param[v][MIDI_FREQ_IDX] = ParamDefault
                       /\ param[v][MIDI_VEL_IDX] = ParamDefault

\* the parameter indices note_on writes
NoteDriven == {MIDI_GATE_IDX, MIDI_FREQ_IDX, MIDI_VEL_IDX}

\* a note-on of the block being processed has been applied
NoteOnApplied ==
    /\ host.pc = "events"
    /\ \E i \in DOMAIN host.applied : host.applied[i].type = "on"

\* C37 (note-on controls survive until perform): in every host wrapper, once
\* a noteOn of the block has written gate, frequency and velocity to the
\* voice it selected, the parameter handling of the block writes none of
\* those indices on any voice before voice_alloc_perform runs: a broadcast
\* made in the block goes to a parameter that is not note-driven, and the
\* gate of every voice stays as the note events left it.
C37_NoteOnControlsSurvive ==
    [][(NoteOnApplied /\ last'.op = "setGlobalParam")
         => /\ last'.a \notin NoteDriven
            /\ \A v \in Voices : \A i \in NoteDriven :
                  param'[v][i] = param[v][i]]_vars

\* C38 (a note-on always occupies its slot): for every note value a host
\* wrapper can forward to noteOn, negative ones included, the slot whose id
\* noteOn returns is bound (note >= 0) after the call, so no slot is free in
\* the bookkeeping while its engine holds the gate 1 that the noteOn wrote.
C38_NoteOnOccupiesSlot ==
    last.op = "noteOn"
        => /\ last.ret \in Voices
           /\ note[last.ret] >= 0
           /\ ~(IsFree(last.ret)
                  /\ states[last.ret] # nullptr
                  /\ param[last.ret][MIDI_GATE_IDX] = 1)

====
